---- MODULE Spec2Model ----
(***************************************************************************)
(* Model of gokvm's machine package: the port handler table built by      *)
(* LoadLinux/initIOPortHandlers, the VCPU run loop (RunInfiniteLoop,       *)
(* RunOnce, kvm.Run) and the IRQ lines, with the host kernel               *)
(* (the KVM_RUN ioctl and the shared run-state page) as the environment.   *)
(***************************************************************************)
EXTENDS Integers, Sequences, FiniteSets, TLC

(* ---------------------------------------------------------------- bounds *)

\* largest repeat count the kernel reports for a (REP-prefixed) IO exit
MaxCount == 2

\* number of bytes stdin delivers
MaxBytes == 3

\* capacity of the serial input channel
FifoCap == 2

(* ------------------------------------------------- constants of the code *)

EXITUNKNOWN == 0
EXITIO == 2
EXITDEBUG == 4
EXITHLT == 5
EXITMMIO == 6
EXITSHUTDOWN == 8
EXITFAILENTRY == 9
EXITINTR == 10
EXITINTERNALERROR == 17

EXITIOIN == 0
EXITIOOUT == 1

serialIRQ == 4
virtioNetIRQ == 10
virtioBlkIRQ == 9

\* guest-physical addresses of the boot parameters (0x10000) and the kernel (0x100000)
bootParamAddr == 65536
kernelAddr == 1048576

\* serial.COM1Addr, 0x3F8
COM1Addr == 1016

\* first port of the I/O BARs of the PCI devices, 0x6000, and the size of one BAR
PCIIOBase == 24576
PCIBARSize == 64

(* ------------------------------------------------------------ value sets *)

\* The VCPU whose run loop the model follows.  The VCPUs of a machine share the
\* handler table, which RunOnce only reads, and each has its own run-state page.
Cpus == {0}

Dirs == {EXITIOIN, EXITIOOUT}

IRQs == {serialIRQ, virtioBlkIRQ, virtioNetIRQ}

\* exit reasons the kernel reports in the model
ExitReasons ==
    {EXITUNKNOWN, EXITIO, EXITDEBUG, EXITHLT, EXITMMIO, EXITSHUTDOWN,
     EXITFAILENTRY, EXITINTR, EXITINTERNALERROR}

\* outcomes of the KVM_RUN ioctl: success or an errno
Errnos == {"ok", "EAGAIN", "EINTR", "EFAULT"}

\* access widths of an IN/OUT instruction
Sizes == {1, 2, 4}

\* bytes the guest writes with OUT (0x0E is the power-cycle request, 0x06 a reset)
OutValues == {14, 6}

\* data offset the kernel records in the run-state page
Offsets == {4096}

\* The ports of the model: the boundaries of the ranges initIOPortHandlers
\* installs.  0x40, 0x60, 0x6F, 0x70, 0x3F8, 0x3FF, 0x400, 0xC000, 0xCF8, 0xCF9,
\* 0xCFC, 0xCFF, 0x6000, 0x6040, 0x60BF, 0x60C0.
Ports ==
    {64, 96, 111, 112, 1016, 1023, 1024, 49152, 3320, 3321, 3324, 3327,
     24576, 24640, 24767, 24768}

\* The ports the guest accesses in the model, one for each kind of handler:
\* 0x40 and 0x60C0 (no install), 0x60 (PS/2), 0x70 and 0xC000 (no-op ranges),
\* 0x3F8 (COM1), 0xCF8 and 0xCFC (PCI configuration), 0xCF9 (reset), 0x6040 (a BAR).
GuestPorts == {64, 96, 112, 1016, 49152, 3320, 3321, 3324, 24640, 24768}

(* ---------------------------------------------------------------- errors *)

\* An error value: the sentinel it wraps (errors.Is), its message and argument.
Err(w, m, a) == [wraps |-> w, msg |-> m, arg |-> a]

Nil == Err("nil", "", 0)

ErrorUnexpectedEXITReason == "unexpected kvm exit reason"

ErrorWriteToCF9 == "power cycle via 0xcf9"

\* kvm.ErrDebug, the error the tests expect of a single-step hit
ErrDebug == "debug"

errorPCIDeviceNotFoundForPort == Err("pci device cannot be found for port", "", 0)

\* the error a device of another package (serial, pci, virtio) returns
DeviceError == Err("device error", "", 0)

(* -------------------------------------------------------- the PCI devices *)

\* m.pci.Devices: 00:00.0 bridge, 00:01.0 virtio-net, 00:02.0 virtio-blk
Devices == <<"bridge", "net", "blk">>

\* per PCI device: the port its BAR0 names now
VARIABLE bar

\* BAR0 of the devices as assigned at bring-up: consecutive ranges from PCIIOBase
BringUpBAR ==
    [d \in {Devices[j] : j \in 1 .. Len(Devices)} |->
        LET k == CHOOSE j \in 1 .. Len(Devices) : Devices[j] = d
        IN  PCIIOBase + (k - 1) * PCIBARSize]

\* device.GetIORange(): the half-open range [start, end) of the device's BAR0
GetIORange(d) == [start |-> bar[d], end |-> bar[d] + PCIBARSize]

(* -------------------------------------------------- the port handler table *)

\* zero value of Machine.ioportHandlers: every slot holds a nil func
NilTable == [p \in Ports |-> [d \in Dirs |-> "nil"]]

\* for port := lo; port <= hi; port++ { t[port][dir] = h }
Install(t, lo, hi, dir, h) ==
    [p \in Ports |-> IF lo <= p /\ p <= hi THEN [t[p] EXCEPT ![dir] = h] ELSE t[p]]

\* InstallDefault with the no-op handler as the default
InstallDefaultNone(t) ==
    [p \in Ports |-> [d \in Dirs |-> "funcNone"]]

\* the default handler on every port, both directions
InstallDefault(t) ==
    [p \in Ports |-> [d \in Dirs |-> "funcError"]]

\* InstallDirBody with the two assignments of 0xcf9 in the other order
InstallDirBodyCF9None(t, dir) ==
    LET t1 == Install(t, 3321, 3321, dir, "funcOutbCF9")
        t2 == Install(t1, 3321, 3321, dir, "funcNone")
        t3 == Install(t2, 960, 986, dir, "funcNone")
        t4 == Install(t3, 948, 949, dir, "funcNone")
        t5 == Install(t4, 112, 113, dir, "funcNone")
        t6 == Install(t5, 128, 159, dir, "funcNone")
        t7 == Install(t6, 760, 767, dir, "funcNone")
        t8 == Install(t7, 1000, 1007, dir, "funcNone")
        t9 == Install(t8, 744, 751, dir, "funcNone")
        t10 == Install(t9, 3326, 3326, dir, "funcNone")
        t11 == Install(t10, 3322, 3323, dir, "funcNone")
    IN  Install(t11, 49152, 53247, dir, "funcNone")

\* one iteration of the loop over dir: CF9 (0xcf9, twice), VGA (0x3c0..0x3da,
\* 0x3b4..0x3b5), CMOS (0x70..0x71), DMA (0x80..0x9f), serial ports 2, 3, 4
\* (0x2f8.., 0x3e8.., 0x2e8..), 0xcfe, 0xcfa..0xcfb, 0xc000..0xcfff, in source order
InstallDirBody(t, dir) ==
    LET t1 == Install(t, 3321, 3321, dir, "funcNone")
        t2 == Install(t1, 3321, 3321, dir, "funcOutbCF9")
        t3 == Install(t2, 960, 986, dir, "funcNone")
        t4 == Install(t3, 948, 949, dir, "funcNone")
        t5 == Install(t4, 112, 113, dir, "funcNone")
        t6 == Install(t5, 128, 159, dir, "funcNone")
        t7 == Install(t6, 760, 767, dir, "funcNone")
        t8 == Install(t7, 1000, 1007, dir, "funcNone")
        t9 == Install(t8, 744, 751, dir, "funcNone")
        t10 == Install(t9, 3326, 3326, dir, "funcNone")
        t11 == Install(t10, 3322, 3323, dir, "funcNone")
    IN  Install(t11, 49152, 53247, dir, "funcNone")

\* InstallPS2 with the two directions exchanged
InstallPS2Swapped(t) ==
    Install(Install(t, 96, 111, EXITIOOUT, "ps2In"), 96, 111, EXITIOIN, "funcNone")

\* PS/2 keyboard, 0x60..0x6f
InstallPS2(t) ==
    Install(Install(t, 96, 111, EXITIOIN, "ps2In"), 96, 111, EXITIOOUT, "funcNone")

\* serial port 1, COM1Addr..COM1Addr+7
InstallSerial(t) ==
    Install(Install(t, COM1Addr, COM1Addr + 7, EXITIOIN, "serialIn"),
            COM1Addr, COM1Addr + 7, EXITIOOUT, "serialOut")

\* InstallPCIConf with the data loop one port short (port < 0xcfc+3)
InstallPCIConfShort(t) ==
    LET t1 == Install(t, 3320, 3320, EXITIOIN, "PciConfAddrIn")
        t2 == Install(t1, 3320, 3320, EXITIOOUT, "PciConfAddrOut")
        t3 == Install(t2, 3324, 3326, EXITIOIN, "PciConfDataIn")
    IN  Install(t3, 3324, 3326, EXITIOOUT, "PciConfDataOut")

\* PCI configuration: 0xcf8 address register, 0xcfc..0xcff data
InstallPCIConf(t) ==
    LET t1 == Install(t, 3320, 3320, EXITIOIN, "PciConfAddrIn")
        t2 == Install(t1, 3320, 3320, EXITIOOUT, "PciConfAddrOut")
        t3 == Install(t2, 3324, 3327, EXITIOIN, "PciConfDataIn")
    IN  Install(t3, 3324, 3327, EXITIOOUT, "PciConfDataOut")

\* InstallDevices with the closed range start..end (port <= end)
RECURSIVE InstallDevicesInclusive(_, _)
InstallDevicesInclusive(t, k) ==
    IF k > Len(Devices) THEN t
    ELSE LET r == GetIORange(Devices[k])
             t1 == Install(t, r.start, r.end, EXITIOIN, "pciInFunc")
             t2 == Install(t1, r.start, r.end, EXITIOOUT, "pciOutFunc")
         IN  InstallDevicesInclusive(t2, k + 1)

\* for _, device := range m.pci.Devices: the thunks on start..end-1
RECURSIVE InstallDevices(_, _)
InstallDevices(t, k) ==
    IF k > Len(Devices) THEN t
    ELSE LET r == GetIORange(Devices[k])
             t1 == Install(t, r.start, r.end - 1, EXITIOIN, "pciInFunc")
             t2 == Install(t1, r.start, r.end - 1, EXITIOOUT, "pciOutFunc")
         IN  InstallDevices(t2, k + 1)

\* initIOPortHandlers with the loop over dir stopping before EXITIOOUT
initIOPortHandlersOneDir(t) ==
    LET t0 == InstallDefault(t)
        t1 == InstallDirBody(t0, EXITIOIN)
    IN  InstallDevices(InstallPCIConf(InstallSerial(InstallPS2(t1))), 1)

\* the table after the default install and the loop over dir, before the installs
\* that follow it (PS/2, COM1, PCI configuration, devices)
TableAfterDirLoop(t) ==
    InstallDirBody(InstallDirBody(InstallDefault(t), EXITIOIN), EXITIOOUT)

initIOPortHandlers(t) ==
    LET t0 == InstallDefault(t)
        t1 == InstallDirBody(InstallDirBody(t0, EXITIOIN), EXITIOOUT)
    IN  InstallDevices(InstallPCIConf(InstallSerial(InstallPS2(t1))), 1)

(* ------------------------------------------------------------------ state *)

VARIABLES
    phase,           \* "new" after New, "loaded" / "loadErr" after LoadLinux returned
    ioportHandlers,  \* Machine.ioportHandlers
    mem,             \* the regions of guest memory LoadLinux has written
    irqLevel,        \* level of each IRQ line of the in-kernel interrupt chip
    runs,            \* Machine.runs: the run-state page of each VCPU
    mode,            \* per VCPU: "idle", "loop" (inside RunInfiniteLoop), "done"
    loopErr,         \* per VCPU: the value RunInfiniteLoop returned
    last,            \* the most recent call of RunOnce: its inputs and its result
    panicked,        \* a nil handler was called: the process is gone
    proc,            \* the process: "running", "exit0", "exit1"
    term,            \* the terminal: "init", "raw" (SetRawMode), "restored" (restoreMode)
    mainPc,          \* main's thread: "main", "wait" (wg.Wait), "select", "end"
    pump,            \* the stdin goroutine: its position, before, b and its counts
    fifo,            \* the serial input channel
    inj,             \* per IRQ line: the Inject...IRQ call in progress or last made
    regs,            \* per VCPU: the registers the kernel holds (kvm_regs, kvm_sregs)
    thr,             \* per VCPU: the host threads that issued ioctls on it, and the
                     \* thread its run loop is locked to
    badOp,           \* the last call of RunOnce with an id that names no VCPU
    vq,              \* a virtio queue: the rings the driver and the device share,
                     \* the device's and the driver's positions in them
    irqc,            \* the calls of InjectVirtioNetIRQ that the two virtio-net
                     \* threads make, and the edges the line has seen
    errv,            \* main's variable err, shared with the VCPU goroutines: its
                     \* value and last writer, and what each goroutine read
    boot             \* New: whether it was called, what it returned, and the
                     \* device threads it has started

\* the state of main and of its goroutines other than the VCPUs'
mainVars == <<proc, term, mainPc, pump, fifo, inj>>

vars ==
    <<phase, ioportHandlers, mem, irqLevel, runs, mode, loopErr, last, panicked,
      proc, term, mainPc, pump, fifo, inj, regs, thr, badOp, vq, irqc, errv, boot,
      bar>>

(* ------------------------------------------------------ the run-state page *)

\* a page whose exit reason is not IO: the io member of the union is read only
\* under EXITIO, so the model keeps it only then
PlainPage(reason) ==
    [ExitReason |-> reason, direction |-> 0, size |-> 0, port |-> 0, count |-> 0,
     offset |-> 0, data |-> << >>]

\* the page after an IO exit: count elements of size bytes at offset, each byte v
\* (an OUT carries the guest's bytes, an IN a zeroed buffer for the handler)
IOPage(dir, size, port, count, offset, v) ==
    [ExitReason |-> EXITIO, direction |-> dir, size |-> size, port |-> port,
     count |-> count, offset |-> offset,
     data |-> [j \in 1 .. (count * size) |-> v]]

\* what a successful KVM_RUN can leave in the page
FreshPages ==
    {PlainPage(r) : r \in ExitReasons \ {EXITIO}}
    \cup {IOPage(EXITIOIN, s, p, c, o, 0) :
            s \in Sizes, p \in GuestPorts, c \in 1 .. MaxCount, o \in Offsets}
    \cup {IOPage(EXITIOOUT, s, p, c, o, v) :
            s \in Sizes, p \in GuestPorts, c \in 1 .. MaxCount, o \in Offsets, v \in OutValues}

\* the page after the ioctl returned errno: written by the kernel on success; on a
\* failure left as it was, or, for EINTR, marked with the INTR exit reason
KernelPages(old, errno) ==
    IF errno = "ok" THEN FreshPages
    ELSE IF errno = "EINTR" THEN {old, PlainPage(EXITINTR)}
    ELSE {old}

\* RunData.IO(): direction, size, port, count, offset
IO(r) ==
    [direction |-> r.direction % 256, size |-> r.size % 256, port |-> r.port % 65536,
     count |-> r.count, offset |-> r.offset]

(* ----------------------------------------------------------------- kvm.Run *)

\* kvm.Run: EAGAIN and EINTR are turned into a nil error
Run(errno) ==
    IF errno = "ok" THEN Nil
    ELSE IF errno = "EAGAIN" \/ errno = "EINTR" THEN Nil
    ELSE Err(errno, "", 0)

(* ------------------------------------------------------------ the handlers *)

\* the slice RunOnce hands to the handler: size bytes at offset
Slice(r, io) ==
    [off |-> io.offset, len |-> io.size, val |-> SubSeq(r.data, 1, io.size)]

\* pciInFunc / pciOutFunc: the first device whose range holds the port
PCIDeviceFor(port) ==
    {k \in 1 .. Len(Devices) :
        GetIORange(Devices[k]).start <= port /\ port < GetIORange(Devices[k]).end}

\* A handler call: its error and the byte it stores, if any, into bytes[0].
\* devOK is the outcome of the device's own handler (serial, pci, virtio), which
\* lives outside this package.
Invoke(h, port, bytes, devOK) ==
    CASE h = "nil" -> [panic |-> TRUE, err |-> Nil, store |-> -1]
      [] h = "funcNone" -> [panic |-> FALSE, err |-> Nil, store |-> -1]
      [] h = "funcError" ->
            [panic |-> FALSE,
             err |-> Err(ErrorUnexpectedEXITReason, "unexpected io port", port),
             store |-> -1]
      [] h = "funcOutbCF9" ->
            [panic |-> FALSE,
             err |-> IF bytes.len = 1 /\ bytes.val[1] = 14
                     THEN Err(ErrorWriteToCF9, "write 0xe to cf9", 0)
                     ELSE Err(ErrorWriteToCF9, "write %#x to cf9", bytes.val[1]),
             store |-> -1]
      [] h = "ps2In" -> [panic |-> FALSE, err |-> Nil, store |-> 32]
      [] h \in {"pciInFunc", "pciOutFunc"} ->
            [panic |-> FALSE,
             err |-> IF PCIDeviceFor(port) = {} THEN errorPCIDeviceNotFoundForPort
                     ELSE IF devOK THEN Nil ELSE DeviceError,
             store |-> -1]
      [] OTHER ->
            [panic |-> FALSE, err |-> IF devOK THEN Nil ELSE DeviceError, store |-> -1]

\* the handlers whose result is decided by a device outside this package
ExternalHandlers ==
    {"serialIn", "serialOut", "PciConfAddrIn", "PciConfAddrOut", "PciConfDataIn",
     "PciConfDataOut", "pciInFunc", "pciOutFunc"}

\* the calls at which the device behind the page's port can fail (0: at none)
DevFails(t, r) ==
    IF r.ExitReason = EXITIO /\ t[r.port][r.direction] \in ExternalHandlers
    THEN 0 .. r.count
    ELSE {0}

(* ----------------------------------------------------------------- RunOnce *)

\* the record of one handler call
Call(h, io, bytes, err) ==
    [h |-> h, port |-> io.port, dir |-> io.direction, off |-> bytes.off,
     len |-> bytes.len, err |-> err]

\* IOLoop without the loop: one call of the handler, whatever count is
IOLoopOnce(f, r, io, k, devFail, calls) ==
    LET bytes == [off |-> io.offset, len |-> io.size, val |-> SubSeq(r.data, 1, io.size)]
        res == Invoke(f, io.port, bytes, k # devFail)
    IN  [panic |-> res.panic, err |-> res.err,
         calls |-> IF res.panic THEN calls ELSE Append(calls, Call(f, io, bytes, res.err)),
         page |-> IF res.store >= 0 THEN [r EXCEPT !.data[1] = res.store] ELSE r]

\* for i := 0; i < int(count); i++ { if err := f(m, port, bytes); err != nil { return } }
\* devFail is the call at which the device's own handler fails (0: never)
RECURSIVE IOLoop(_, _, _, _, _, _)
IOLoop(f, r, io, k, devFail, calls) ==
    IF k > io.count THEN [panic |-> FALSE, err |-> Nil, calls |-> calls, page |-> r]
    ELSE LET bytes == Slice(r, io)
             res == Invoke(f, io.port, bytes, k # devFail)
             r1 == IF res.store >= 0 THEN [r EXCEPT !.data[1] = res.store] ELSE r
             calls1 == Append(calls, Call(f, io, bytes, res.err))
         IN  IF res.panic THEN [panic |-> TRUE, err |-> Nil, calls |-> calls, page |-> r]
             ELSE IF res.err # Nil
                  THEN [panic |-> FALSE, err |-> res.err, calls |-> calls1, page |-> r1]
                  ELSE IOLoop(f, r1, io, k + 1, devFail, calls1)

\* a return of RunOnce that called no handler
Ret(cont, err, r) ==
    [panic |-> FALSE, cont |-> cont, err |-> err, calls |-> << >>, page |-> r]

\* caseHLT returning true
caseHLTContinues(r, err) ==
    Ret(TRUE, err, r)

\* case kvm.EXITHLT: return false, err
caseHLT(r, err) ==
    Ret(FALSE, err, r)

\* case kvm.EXITIO: look the handler up, call it count times, return true, err
caseIO(t, r, err, devFail) ==
    LET io == IO(r)
        f == t[io.port][io.direction]
        res == IOLoop(f, r, io, 1, devFail, << >>)
    IN  IF res.panic
        THEN [panic |-> TRUE, cont |-> FALSE, err |-> Nil, calls |-> res.calls,
              page |-> res.page]
        ELSE IF res.err # Nil
             THEN [panic |-> FALSE, cont |-> FALSE, err |-> res.err,
                   calls |-> res.calls, page |-> res.page]
             ELSE [panic |-> FALSE, cont |-> TRUE, err |-> err,
                   calls |-> res.calls, page |-> res.page]

\* caseUNKNOWN handled as the default case handles a reason
caseUNKNOWNFatal(r, err) ==
    Ret(FALSE, Err(ErrorUnexpectedEXITReason, "", r.ExitReason), r)

\* case kvm.EXITUNKNOWN: return true, err
caseUNKNOWN(r, err) ==
    Ret(TRUE, err, r)

\* case kvm.EXITINTR: return true, nil
caseINTR(r, err) ==
    Ret(TRUE, Nil, r)

\* caseDefault handled as caseUNKNOWN handles its reason
caseDefaultBenign(r, err) ==
    Ret(TRUE, err, r)

\* default: return false, err if the ioctl failed, else the unexpected-exit error
caseDefault(r, err) ==
    IF err # Nil THEN Ret(FALSE, err, r)
    ELSE Ret(FALSE, Err(ErrorUnexpectedEXITReason, "", r.ExitReason), r)

\* RunOnce(i), the ioctl having returned errno and left page r: kvm.Run, then the
\* switch on m.runs[i].ExitReason
RunOnce(t, r, errno, devFail) ==
    LET err == Run(errno)
    IN  CASE r.ExitReason = EXITHLT -> caseHLT(r, err)
          [] r.ExitReason = EXITIO -> caseIO(t, r, err, devFail)
          [] r.ExitReason = EXITUNKNOWN -> caseUNKNOWN(r, err)
          [] r.ExitReason = EXITINTR -> caseINTR(r, err)
          [] OTHER -> caseDefault(r, err)

\* what the model remembers of a call of RunOnce
LastOf(i, viaLoop, errno, r, res) ==
    [valid |-> TRUE, cpu |-> i, viaLoop |-> viaLoop, errno |-> errno, page |-> r,
     cont |-> res.cont, err |-> res.err, calls |-> res.calls]

NoLast ==
    [valid |-> FALSE, cpu |-> 0, viaLoop |-> FALSE, errno |-> "ok",
     page |-> PlainPage(EXITUNKNOWN), cont |-> FALSE, err |-> Nil, calls |-> << >>]

(* ----------------------------------------------------------- virtio queue *)

\* the chains the driver publishes
MaxChains == 2

\* queue_size is a power of two
QueueSizes == {1, 2, 4}

\* the value of the free-running 16-bit indices of a queue: one just set up, and
\* one that has carried 65535 chains
RingStarts == {0, 65535}

Inc16(x) == (x + 1) % 65536

\* used.flags
NOINTERRUPT == 1

\* a descriptor the driver has not written
NoDesc == [next |-> 0, hasNext |-> FALSE, write |-> FALSE]

\* a queue of Q descriptors whose indices stand at start, nothing in flight.
\* desc, buf, avail and used are guest memory; lastAvailIdx, pc, head, chain,
\* writtenLen and published are the device's; lastUsedIdx and seenIdx are the
\* driver's; pubs (the chains published so far), done (the increments of
\* used.idx), reaped and bad (the driver found an entry or a payload missing)
\* record the history
FreshQueue(Q, start) ==
    [queueSize |-> Q,
     start |-> start,
     desc |-> [d \in 0 .. Q - 1 |-> NoDesc],
     buf |-> [d \in 0 .. Q - 1 |-> "none"],
     avail |-> [idx |-> start, ring |-> [k \in 0 .. Q - 1 |-> 0]],
     used |-> [flags |-> 0, idx |-> start,
               ring |-> [k \in 0 .. Q - 1 |-> [id |-> 0, len |-> 0]]],
     lastAvailIdx |-> start,
     pc |-> "idle",
     head |-> 0,
     chain |-> << >>,
     writtenLen |-> 0,
     published |-> 0,
     irqs |-> 0,
     lastUsedIdx |-> start,
     seenIdx |-> start,
     pubs |-> << >>,
     done |-> 0,
     reaped |-> 0,
     bad |-> FALSE]

\* the queue of a device whose driver has not set it up
NoQueue == FreshQueue(0, 0)

\* the walk with the test of the length made before the descriptor is counted
RECURSIVE WalkFromLoose(_, _, _, _)
WalkFromLoose(desc, d, Q, chain) ==
    LET chain1 == Append(chain, d)
    IN  IF desc[d].hasNext /\ Len(chain) < Q
        THEN WalkFromLoose(desc, desc[d].next, Q, chain1)
        ELSE chain1

\* the walk of a chain, descriptor d being reached with chain walked before it:
\* NEXT is followed while it is set and the chain stays within queue_size
RECURSIVE WalkFrom(_, _, _, _)
WalkFrom(desc, d, Q, chain) ==
    LET chain1 == Append(chain, d)
    IN  IF desc[d].hasNext /\ Len(chain1) < Q
        THEN WalkFrom(desc, desc[d].next, Q, chain1)
        ELSE chain1

Walk(desc, head, Q) == WalkFrom(desc, head, Q, << >>)

\* the visits of chain to device-writable descriptors
WriteVisits(desc, chain) == {k \in 1 .. Len(chain) : desc[chain[k]].write}

\* the buffers after the device's handler has filled the write segment
Handled(q, chain) ==
    [d \in DOMAIN q.buf |->
        IF \E k \in WriteVisits(q.desc, chain) : chain[k] = d
        THEN "device" ELSE q.buf[d]]

(* -------------------------------------------------------------- registers *)

\* a 32-bit value as its two 16-bit halves
Word32(hi, lo) == [hi |-> hi, lo |-> lo]

Segs == {"CS", "DS", "ES", "FS", "GS", "SS"}

\* the registers of a VCPU that KVM_CREATE_VCPU has just created: RIP 0xfff0,
\* CS base 0xffff0000, 64 KiB segments, CR0 0x60000010
ResetRegs ==
    [RFLAGS |-> 2, RIP |-> 65520, RSI |-> 0, CR0 |-> 1610612752,
     seg |-> [s \in Segs |->
                [Base |-> IF s = "CS" THEN Word32(65535, 0) ELSE Word32(0, 0),
                 Limit |-> Word32(0, 65535), G |-> 0, DB |-> 0]]]

\* x | 1
Or1(x) == IF x % 2 = 1 THEN x ELSE x + 1

\* initRegs with RIP and RSI exchanged
initRegsSwapped(r) ==
    [r EXCEPT !.RFLAGS = 2, !.RIP = bootParamAddr, !.RSI = kernelAddr]

\* initRegs: GetRegs, RFLAGS = 2, RIP = kernelAddr, RSI = bootParamAddr, SetRegs
initRegs(r) ==
    [r EXCEPT !.RFLAGS = 2, !.RIP = kernelAddr, !.RSI = bootParamAddr]

\* initSregs: GetSregs, every segment flat, CS.DB = SS.DB = 1, CR0 |= 1, SetSregs
initSregs(r) ==
    [r EXCEPT
        !.seg = [s \in Segs |->
                    [Base |-> Word32(0, 0), Limit |-> Word32(65535, 65535), G |-> 1,
                     DB |-> IF s \in {"CS", "SS"} THEN 1 ELSE r.seg[s].DB]],
        !.CR0 = Or1(r.CR0)]

(* ------------------------------------------------------------------- Init *)

\* the stdin goroutine before main starts it: before is 0, nothing read or sent
NoPump == [pc |-> "off", before |-> 0, b |-> 0, enq |-> 0, injs |-> 0]

\* an IRQ line nobody has injected on yet
NoInj == [pc |-> "idle", calls |-> << >>, err |-> Nil]

\* the thread New ran on, which created every VCPU, and the lock of a run loop
\* that is not running
NewThread == 0
NoThread == -1

\* the virtio-net threads that call InjectVirtioNetIRQ
IrqCallers == {"rx", "tx"}

\* no call of InjectVirtioNetIRQ yet
NoCalls ==
    [pc |-> [c \in IrqCallers |-> "idle"], calls |-> [c \in IrqCallers |-> 0],
     done |-> 0, edges |-> 0]

\* who wrote err, or whose value a read returned
MainWriter == [kind |-> "main", id |-> 0]
Writer(i) == [kind |-> "vcpu", id |-> i]
NoRead == [val |-> Nil, by |-> [kind |-> "none", id |-> 0]]

\* err when main starts the VCPU goroutines: nil, as os.Open(initrdPath) left it
ErrAtStart(cpus) ==
    [val |-> Nil, by |-> MainWriter,
     g |-> [i \in cpus |-> [pc |-> "run", test |-> NoRead, print |-> NoRead]],
     mainTest |-> NoRead]

\* the device threads New starts
DeviceThreads == {"netTx", "netRx", "blkIO"}

\* New has returned a machine
NewReturned == [pc |-> "ok", threads |-> DeviceThreads, err |-> Nil]

\* no call of RunOnce with a bad id yet
NoBadOp == [made |-> FALSE, cpu |-> 0, panic |-> FALSE, err |-> Nil]

\* the machine New(nCpus, ...) returns, cpus being 0 .. nCpus-1: the table not
\* built, the pages zeroed, EBDA written, the VCPUs in their reset state
MachineAfterNew(cpus) ==
    /\ phase = "new"
    /\ ioportHandlers = NilTable
    /\ mem = {"ebda"}
    /\ irqLevel = [q \in IRQs |-> 0]
    /\ runs = [i \in cpus |-> PlainPage(EXITUNKNOWN)]
    /\ mode = [i \in cpus |-> "idle"]
    /\ loopErr = [i \in cpus |-> Nil]
    /\ last = NoLast
    /\ panicked = FALSE
    /\ proc = "running"
    /\ term = "init"
    /\ mainPc = "main"
    /\ pump = NoPump
    /\ fifo = << >>
    /\ inj = [q \in IRQs |-> NoInj]
    /\ regs = [i \in cpus |-> ResetRegs]
    /\ thr = [i \in cpus |-> [issued |-> {NewThread}, lock |-> NoThread]]
    /\ badOp = NoBadOp
    /\ irqc = NoCalls
    /\ errv = ErrAtStart(cpus)
    /\ bar = BringUpBAR

Init == MachineAfterNew(Cpus) /\ vq = NoQueue /\ boot = NewReturned

(* -------------------------------------------------------------- LoadLinux *)

\* where LoadLinux returns: with an error before anything is written (the initrd
\* cannot be read), with an error of serial.New, or with nil
LoadFailPoints == <<"initrd", "serial", "none">>

\* the regions of guest memory written before LoadLinux reaches fail point k
LoadedBefore(k) ==
    IF k = 1 THEN {} ELSE {"initrd", "cmdline", "bootparam", "kernel"}

\* LoadLinux: the table is built by initIOPortHandlers once the images are
\* loaded and the registers set, before the serial device is created
LoadLinuxReturns(k) ==
    /\ mem' = mem \cup LoadedBefore(k)
    /\ ioportHandlers' =
          IF k >= 2 THEN initIOPortHandlers(ioportHandlers) ELSE ioportHandlers
    /\ phase' = IF LoadFailPoints[k] = "none" THEN "loaded" ELSE "loadErr"
    /\ regs' = IF k >= 2
               THEN [i \in DOMAIN regs |-> initSregs(initRegs(regs[i]))]
               ELSE regs

\* a caller other than main calls LoadLinux
LoadLinux ==
    /\ ~panicked
    /\ phase = "new"
    /\ \E k \in 1 .. Len(LoadFailPoints) : LoadLinuxReturns(k)
    /\ UNCHANGED <<irqLevel, runs, mode, loopErr, last, panicked>>
    /\ UNCHANGED mainVars
    /\ UNCHANGED <<thr, badOp, vq>>
    /\ UNCHANGED <<irqc, errv, boot, bar>>

(* -------------------------------------------------------------- the VCPUs *)

\* the state after RunOnce(i), the ioctl having returned errno and left page r
RunOnceEffect(i, viaLoop, errno, r, res) ==
    /\ runs' = [runs EXCEPT ![i] = res.page]
    /\ panicked' = res.panic
    /\ last' = IF res.panic THEN last ELSE LastOf(i, viaLoop, errno, r, res)

\* RunInfiniteLoop's use of RunOnce's result: return err, return nil, or go on
LoopDecision(cont, err) ==
    IF err # Nil THEN [mode |-> "done", err |-> err]
    ELSE IF ~cont THEN [mode |-> "done", err |-> Nil]
    ELSE [mode |-> "loop", err |-> Nil]

\* StartLoop without waiting for LoadLinux to have returned nil
StartLoopEarly(i) ==
    /\ ~panicked
    /\ mode[i] = "idle"
    /\ mode' = [mode EXCEPT ![i] = "loop"]
    /\ UNCHANGED <<phase, ioportHandlers, mem, irqLevel, runs, loopErr, last,
                   panicked>>
    /\ UNCHANGED mainVars
    /\ UNCHANGED <<regs, thr, badOp, vq>>
    /\ UNCHANGED <<irqc, errv, boot, bar>>

\* main: go m.RunInfiniteLoop(cpuId), after LoadLinux succeeded
StartLoop(i) ==
    /\ ~panicked
    /\ phase = "loaded"
    /\ mode[i] = "idle"
    /\ mode' = [mode EXCEPT ![i] = "loop"]
    /\ UNCHANGED <<phase, ioportHandlers, mem, irqLevel, runs, loopErr, last,
                   panicked>>
    /\ UNCHANGED mainVars
    /\ UNCHANGED <<regs, thr, badOp, vq>>
    /\ UNCHANGED <<irqc, errv, boot, bar>>

\* one iteration of RunInfiniteLoop(i)
LoopStep(i) ==
    /\ ~panicked
    /\ mode[i] = "loop"
    /\ \E errno \in Errnos :
         \E r \in KernelPages(runs[i], errno) :
          \E devFail \in DevFails(ioportHandlers, r) :
            LET res == RunOnce(ioportHandlers, r, errno, devFail)
                d == LoopDecision(res.cont, res.err)
            IN  /\ RunOnceEffect(i, TRUE, errno, r, res)
                /\ mode' = IF res.panic THEN mode ELSE [mode EXCEPT ![i] = d.mode]
                /\ loopErr' = IF res.panic THEN loopErr ELSE [loopErr EXCEPT ![i] = d.err]
    /\ UNCHANGED <<phase, ioportHandlers, mem, irqLevel>>
    /\ UNCHANGED mainVars
    /\ UNCHANGED <<regs, thr, badOp, vq>>
    /\ UNCHANGED <<irqc, errv, boot, bar>>

\* a caller other than RunInfiniteLoop calls RunOnce(i), as the tests do
DirectRunOnce(i) ==
    /\ ~panicked
    /\ mode[i] = "idle"
    /\ \E errno \in Errnos :
         \E r \in KernelPages(runs[i], errno) :
          \E devFail \in DevFails(ioportHandlers, r) :
            RunOnceEffect(i, FALSE, errno, r, RunOnce(ioportHandlers, r, errno, devFail))
    /\ UNCHANGED <<phase, ioportHandlers, mem, irqLevel, mode, loopErr>>
    /\ UNCHANGED mainVars
    /\ UNCHANGED <<regs, thr, badOp, vq>>
    /\ UNCHANGED <<irqc, errv, boot, bar>>

\* ids that name no VCPU of the machine
BadCpus == {42}

\* a caller calls RunOnce(i) with an id outside 0 .. nCpus-1: kvm.Run(m.vcpuFds[i])
\* indexes the slice out of range, and the Go runtime panics before anything
\* else is done
RunOnceBadCPU ==
    /\ ~panicked
    /\ \E i \in BadCpus \ DOMAIN runs :
          badOp' = [made |-> TRUE, cpu |-> i, panic |-> TRUE, err |-> Nil]
    /\ panicked' = TRUE
    /\ UNCHANGED <<phase, ioportHandlers, mem, irqLevel, runs, mode, loopErr, last>>
    /\ UNCHANGED mainVars
    /\ UNCHANGED <<regs, thr, vq>>
    /\ UNCHANGED <<irqc, errv, boot, bar>>

(* ------------------------------------------------------------------- Spec *)

Next ==
    \/ LoadLinux
    \/ \E i \in Cpus : StartLoop(i)
    \/ \E i \in Cpus : LoopStep(i)
    \/ \E i \in Cpus : DirectRunOnce(i)
    \/ RunOnceBadCPU

Spec == Init /\ [][Next]_vars

(* ------------------------------------------------------------------- main *)

\* the bytes stdin delivers: Ctrl-A (0x01) and 'x'
StdinBytes == {1, 120}

\* the exits the guest makes while main runs: an interrupted run, a halt, and a
\* read of the serial receive buffer
MainPages ==
    {PlainPage(EXITINTR), PlainPage(EXITHLT), IOPage(EXITIOIN, 1, COM1Addr, 1, 4096, 0)}

\* the input channel after the handler calls of one RunOnce: serial.In on the
\* receive buffer (offset 0) takes the oldest byte, if there is one
RECURSIVE Drain(_, _)
Drain(f, calls) ==
    IF calls = << >> THEN f
    ELSE LET c == Head(calls)
             f1 == IF c.h = "serialIn" /\ c.port = COM1Addr /\ c.err = Nil /\ f # << >>
                   THEN Tail(f) ELSE f
         IN  Drain(f1, Tail(calls))

\* main: m.LoadLinux(...), log.Fatalf on an error
MainLoadLinux ==
    /\ proc = "running"
    /\ mainPc = "main"
    /\ phase = "new"
    /\ \E k \in 1 .. Len(LoadFailPoints) :
          /\ LoadLinuxReturns(k)
          /\ proc' = IF LoadFailPoints[k] = "none" THEN "running" ELSE "exit1"
          /\ mainPc' = IF LoadFailPoints[k] = "none" THEN "main" ELSE "end"
    /\ UNCHANGED <<irqLevel, runs, mode, loopErr, last, panicked, term, pump, fifo, inj>>
    /\ UNCHANGED <<thr, badOp, vq>>
    /\ UNCHANGED <<irqc, errv, boot, bar>>

\* main: go func(cpuId) { m.RunInfiniteLoop(cpuId) ... }(i)
MainStartCPU(i) ==
    /\ proc = "running"
    /\ mainPc = "main"
    /\ StartLoop(i)

\* one iteration of RunInfiniteLoop(i) in a goroutine of main, but for the thread
\* the run ioctl is issued from
MainLoopBody(i) ==
    /\ proc = "running"
    /\ ~panicked
    /\ mode[i] = "loop"
    /\ \E r \in MainPages :
         \E devFail \in DevFails(ioportHandlers, r) :
            LET res == RunOnce(ioportHandlers, r, "ok", devFail)
                d == LoopDecision(res.cont, res.err)
            IN  /\ RunOnceEffect(i, TRUE, "ok", r, res)
                /\ mode' = IF res.panic THEN mode ELSE [mode EXCEPT ![i] = d.mode]
                /\ loopErr' = IF res.panic THEN loopErr ELSE [loopErr EXCEPT ![i] = d.err]
                /\ fifo' = Drain(fifo, res.calls)
    /\ UNCHANGED <<phase, ioportHandlers, mem, irqLevel, proc, term, mainPc, pump, inj>>
    /\ UNCHANGED <<regs, badOp, vq>>
    /\ UNCHANGED <<irqc, errv, boot, bar>>

\* one iteration of RunInfiniteLoop(i) in main's goroutine
MainLoopStep(i) ==
    /\ MainLoopBody(i)
    /\ UNCHANGED thr

\* main, the CPUs started: term.IsTerminal, term.SetRawMode, go func() { the stdin
\* loop }.  err is the variable the VCPU goroutines assign to: a VCPU that has
\* returned an error can make the test of err after SetRawMode fail.
MainTerminal ==
    /\ proc = "running"
    /\ mainPc = "main"
    /\ \A i \in DOMAIN mode : mode[i] # "idle"
    /\ \/ /\ mainPc' = "select"
          /\ UNCHANGED <<proc, term, pump>>
       \/ /\ proc' = "exit1"
          /\ mainPc' = "end"
          /\ UNCHANGED <<term, pump>>
       \/ /\ \E i \in DOMAIN mode : mode[i] = "done" /\ loopErr[i] # Nil
          /\ term' = "raw"
          /\ proc' = "exit1"
          /\ mainPc' = "end"
          /\ UNCHANGED pump
       \/ /\ term' = "raw"
          /\ pump' = [NoPump EXCEPT !.pc = "read"]
          /\ mainPc' = "wait"
          /\ UNCHANGED proc
    /\ UNCHANGED <<phase, ioportHandlers, mem, irqLevel, runs, mode, loopErr, last,
                   panicked, fifo, inj>>
    /\ UNCHANGED <<regs, thr, badOp, vq>>
    /\ UNCHANGED <<irqc, errv, boot, bar>>

\* main: wg.Wait() returns, main returns, the deferred restoreMode runs
MainWait ==
    /\ proc = "running"
    /\ mainPc = "wait"
    /\ \A i \in DOMAIN mode : mode[i] = "done"
    /\ term' = "restored"
    /\ proc' = "exit0"
    /\ mainPc' = "end"
    /\ UNCHANGED <<phase, ioportHandlers, mem, irqLevel, runs, mode, loopErr, last,
                   panicked, pump, fifo, inj>>
    /\ UNCHANGED <<regs, thr, badOp, vq>>
    /\ UNCHANGED <<irqc, errv, boot, bar>>

(* ------------------------------------------------------ the stdin goroutine *)

\* b, err := in.ReadByte(): a byte, or an error that ends the goroutine
PumpRead ==
    /\ proc = "running"
    /\ pump.pc = "read"
    /\ \/ /\ pump.enq < MaxBytes
          /\ \E b \in StdinBytes : pump' = [pump EXCEPT !.pc = "send", !.b = b]
       \/ pump' = [pump EXCEPT !.pc = "stopped"]
    /\ UNCHANGED <<phase, ioportHandlers, mem, irqLevel, runs, mode, loopErr, last,
                   panicked, proc, term, mainPc, fifo, inj>>
    /\ UNCHANGED <<regs, thr, badOp, vq>>
    /\ UNCHANGED <<irqc, errv, boot, bar>>

\* m.GetInputChan() <- b: a channel send, which waits while the channel is full
PumpSend ==
    /\ proc = "running"
    /\ pump.pc = "send"
    /\ Len(fifo) < FifoCap
    /\ fifo' = Append(fifo, pump.b)
    /\ pump' = [pump EXCEPT !.pc = "len", !.enq = @ + 1]
    /\ UNCHANGED <<phase, ioportHandlers, mem, irqLevel, runs, mode, loopErr, last,
                   panicked, proc, term, mainPc, inj>>
    /\ UNCHANGED <<regs, thr, badOp, vq>>
    /\ UNCHANGED <<irqc, errv, boot, bar>>

\* if len(m.GetInputChan()) > 0 { m.InjectSerialIRQ() }
PumpLen ==
    /\ proc = "running"
    /\ pump.pc = "len"
    /\ pump' = IF Len(fifo) > 0
               THEN [pump EXCEPT !.pc = "inject", !.injs = @ + 1]
               ELSE [pump EXCEPT !.pc = "check"]
    /\ UNCHANGED <<phase, ioportHandlers, mem, irqLevel, runs, mode, loopErr, last,
                   panicked, proc, term, mainPc, fifo, inj>>
    /\ UNCHANGED <<regs, thr, badOp, vq>>
    /\ UNCHANGED <<irqc, errv, boot, bar>>

\* if before == 0x1 && b == 'x' { restoreMode(); os.Exit(0) }; before = b
PumpCheck ==
    /\ proc = "running"
    /\ pump.pc = "check"
    /\ IF pump.before = 1 /\ pump.b = 120
       THEN /\ term' = "restored"
            /\ proc' = "exit0"
            /\ pump' = [pump EXCEPT !.pc = "exited"]
       ELSE /\ pump' = [pump EXCEPT !.pc = "read", !.before = pump.b]
            /\ UNCHANGED <<term, proc>>
    /\ UNCHANGED <<phase, ioportHandlers, mem, irqLevel, runs, mode, loopErr, last,
                   panicked, mainPc, fifo, inj>>
    /\ UNCHANGED <<regs, thr, badOp, vq>>
    /\ UNCHANGED <<irqc, errv, boot, bar>>

(* ---------------------------------------------------------- IRQ injection *)

\* the error of a failed KVM_IRQ_LINE ioctl
IRQLineError == Err("EFAULT", "", 0)

\* kvm.IRQLine(vmFd, irq, level): the line takes the level unless the ioctl fails
IRQLine(levels, irq, level, ok) ==
    IF ok THEN [levels EXCEPT ![irq] = level] ELSE levels

\* the caller of an injection is at the call: the stdin goroutine for the serial
\* line; the virtio device threads, which run from New on, for the other two
AtInject(q) ==
    IF q = serialIRQ THEN pump.pc = "inject" ELSE TRUE

\* the stdin goroutine after InjectSerialIRQ has returned
Returned(q) ==
    IF q = serialIRQ THEN [pump EXCEPT !.pc = "check"] ELSE pump

\* InjectLow that goes on to the second call whatever the first returned
InjectLowIgnoresError(q) ==
    /\ proc = "running"
    /\ inj[q].pc = "idle"
    /\ AtInject(q)
    /\ \E ok \in BOOLEAN :
          /\ irqLevel' = IRQLine(irqLevel, q, 0, ok)
          /\ inj' = [inj EXCEPT ![q] =
                        [pc |-> "low", calls |-> <<[level |-> 0, ok |-> ok]>>, err |-> Nil]]
          /\ pump' = pump
    /\ UNCHANGED <<phase, ioportHandlers, mem, runs, mode, loopErr, last, panicked,
                   proc, term, mainPc, fifo>>
    /\ UNCHANGED <<regs, thr, badOp, vq>>
    /\ UNCHANGED <<irqc, errv, boot, bar>>

\* Inject...IRQ, first half: kvm.IRQLine(m.vmFd, irq, 0), return err if it failed
InjectLow(q) ==
    /\ proc = "running"
    /\ inj[q].pc = "idle"
    /\ AtInject(q)
    /\ \E ok \in BOOLEAN :
          /\ irqLevel' = IRQLine(irqLevel, q, 0, ok)
          /\ inj' = [inj EXCEPT ![q] =
                        [pc |-> IF ok THEN "low" ELSE "idle",
                         calls |-> <<[level |-> 0, ok |-> ok]>>,
                         err |-> IF ok THEN Nil ELSE IRQLineError]]
          /\ pump' = IF ok THEN pump ELSE Returned(q)
    /\ UNCHANGED <<phase, ioportHandlers, mem, runs, mode, loopErr, last, panicked,
                   proc, term, mainPc, fifo>>
    /\ UNCHANGED <<regs, thr, badOp, vq>>
    /\ UNCHANGED <<irqc, errv, boot, bar>>

\* Inject...IRQ, second half: kvm.IRQLine(m.vmFd, irq, 1), return its error or nil
InjectHigh(q) ==
    /\ proc = "running"
    /\ inj[q].pc = "low"
    /\ \E ok \in BOOLEAN :
          /\ irqLevel' = IRQLine(irqLevel, q, 1, ok)
          /\ inj' = [inj EXCEPT ![q] =
                        [pc |-> "idle",
                         calls |-> Append(inj[q].calls, [level |-> 1, ok |-> ok]),
                         err |-> IF ok THEN Nil ELSE IRQLineError]]
          /\ pump' = Returned(q)
    /\ UNCHANGED <<phase, ioportHandlers, mem, runs, mode, loopErr, last, panicked,
                   proc, term, mainPc, fifo>>
    /\ UNCHANGED <<regs, thr, badOp, vq>>
    /\ UNCHANGED <<irqc, errv, boot, bar>>

InjectSerialIRQ == InjectLow(serialIRQ) \/ InjectHigh(serialIRQ)

InjectVirtioNetIRQ == InjectLow(virtioNetIRQ) \/ InjectHigh(virtioNetIRQ)

InjectVirtioBlkIRQ == InjectLow(virtioBlkIRQ) \/ InjectHigh(virtioBlkIRQ)

(* --------------------------------------------------------------- MainSpec *)

MainNext ==
    \/ MainLoadLinux
    \/ \E i \in Cpus : MainStartCPU(i)
    \/ \E i \in Cpus : MainLoopStep(i)
    \/ MainTerminal
    \/ MainWait
    \/ PumpRead
    \/ PumpSend
    \/ PumpLen
    \/ PumpCheck
    \/ InjectSerialIRQ
    \/ InjectVirtioNetIRQ
    \/ InjectVirtioBlkIRQ

\* main and its goroutines
MainSpec == Init /\ [][MainNext]_vars

\* main with the scheduling the Go runtime gives: a goroutine that can take a
\* step takes one; what stdin and the guest deliver is not promised
MainFairSpec ==
    /\ MainSpec
    /\ WF_vars(PumpSend)
    /\ WF_vars(PumpLen)
    /\ WF_vars(PumpCheck)
    /\ WF_vars(InjectSerialIRQ)
    /\ WF_vars(MainWait)

(* --------------------------------------------------- main with two VCPUs *)

\* gokvm -c 2
SmpCpus == {0, 1}

\* the host threads the Go runtime schedules goroutines on
MaxThreads == 2
Threads == 0 .. MaxThreads - 1

SmpInit == MachineAfterNew(SmpCpus) /\ vq = NoQueue /\ boot = NewReturned

\* main: m.LoadLinux(...).  main's goroutine is not locked to a thread: the
\* register ioctls of initRegs and initSregs are issued from the thread it
\* happens to run on.
SmpLoadLinux ==
    /\ proc = "running"
    /\ mainPc = "main"
    /\ phase = "new"
    /\ \E k \in 1 .. Len(LoadFailPoints) :
          /\ LoadLinuxReturns(k)
          /\ proc' = IF LoadFailPoints[k] = "none" THEN "running" ELSE "exit1"
          /\ mainPc' = IF LoadFailPoints[k] = "none" THEN "main" ELSE "end"
          /\ \E t \in Threads :
                thr' = IF k >= 2
                       THEN [i \in DOMAIN thr |->
                               [thr[i] EXCEPT !.issued = @ \cup {t}]]
                       ELSE thr
    /\ UNCHANGED <<irqLevel, runs, mode, loopErr, last, panicked, term, pump, fifo, inj>>
    /\ UNCHANGED <<badOp, vq>>
    /\ UNCHANGED <<irqc, errv, boot, bar>>

\* main: go func(cpuId) { m.RunInfiniteLoop(cpuId) ... }(i), up to
\* runtime.LockOSThread(): the new goroutine is wired to the thread it runs on,
\* a thread no other locked goroutine holds
SmpStartCPU(i) ==
    /\ proc = "running"
    /\ mainPc = "main"
    /\ ~panicked
    /\ phase = "loaded"
    /\ mode[i] = "idle"
    /\ \A j \in DOMAIN mode : j < i => mode[j] # "idle"
    /\ mode' = [mode EXCEPT ![i] = "loop"]
    /\ \E t \in Threads \ {thr[j].lock : j \in DOMAIN thr} :
          thr' = [thr EXCEPT ![i].lock = t]
    /\ UNCHANGED <<phase, ioportHandlers, mem, irqLevel, runs, loopErr, last,
                   panicked>>
    /\ UNCHANGED mainVars
    /\ UNCHANGED <<regs, badOp, vq>>
    /\ UNCHANGED <<irqc, errv, boot, bar>>

\* one iteration of RunInfiniteLoop(i): kvm.Run is issued from the thread the
\* goroutine is locked to; the deferred UnlockOSThread runs when the loop returns
SmpLoopStep(i) ==
    /\ MainLoopBody(i)
    /\ thr' = [thr EXCEPT ![i] =
                 [issued |-> @.issued \cup {@.lock},
                  lock |-> IF mode'[i] = "done" THEN NoThread ELSE @.lock]]

SmpNext ==
    \/ SmpLoadLinux
    \/ \E i \in SmpCpus : SmpStartCPU(i)
    \/ \E i \in SmpCpus : SmpLoopStep(i)
    \/ MainTerminal
    \/ MainWait
    \/ PumpRead
    \/ PumpSend
    \/ PumpLen
    \/ PumpCheck
    \/ InjectSerialIRQ

\* main and its goroutines on a machine with two VCPUs
SmpSpec == SmpInit /\ [][SmpNext]_vars

\* the same with the scheduling the Go runtime gives: main and every goroutine
\* that can take a step takes one; what stdin and the guest deliver is not
\* promised
SmpFairSpec ==
    /\ SmpSpec
    /\ WF_vars(SmpLoadLinux)
    /\ \A i \in SmpCpus : WF_vars(SmpStartCPU(i))
    /\ \A i \in SmpCpus : WF_vars(SmpLoopStep(i))
    /\ WF_vars(MainTerminal)
    /\ WF_vars(MainWait)
    /\ WF_vars(PumpSend)
    /\ WF_vars(PumpLen)
    /\ WF_vars(PumpCheck)
    /\ WF_vars(InjectSerialIRQ)

(* ------------------------------------------------ the virtio ring walker *)

\* the variables of the machine proper
machineVars ==
    <<phase, ioportHandlers, mem, irqLevel, runs, mode, loopErr, last, panicked,
      regs, thr, badOp>>

RingInit ==
    /\ MachineAfterNew(Cpus)
    /\ boot = NewReturned
    /\ \E Q \in QueueSizes : \E start \in RingStarts : vq = FreshQueue(Q, start)

Range(f) == {f[k] : k \in DOMAIN f}

\* the sequences without repetition over S
InjSeqs(S) ==
    UNION {{f \in [1 .. n -> S] : \A j, k \in 1 .. n : j # k => f[j] # f[k]} :
             n \in 1 .. Cardinality(S)}

\* the descriptors of the chains the driver has published and not taken back
InFlight(q) == UNION {Range(q.pubs[i].chain) : i \in q.reaped + 1 .. Len(q.pubs)}

\* the n lowest elements of S, in ascending order
RECURSIVE Lowest(_, _)
Lowest(S, n) ==
    IF n = 0 THEN << >>
    ELSE LET m == CHOOSE x \in S : \A y \in S : x <= y
         IN  <<m>> \o Lowest(S \ {m}, n - 1)

\* the number of readable descriptors a chain of n descriptors begins with: none
\* (a receive buffer), one (a request header), all (a transmit buffer)
ReadPrefixes(n) == {0, 1, n}

\* the descriptors of chain C as the driver writes them: the first nread
\* readable, the rest device-writable, the last with NEXT = 0
ChainDesc(C, nread, d) ==
    LET k == CHOOSE j \in 1 .. Len(C) : C[j] = d
    IN  [next |-> IF k < Len(C) THEN C[k + 1] ELSE 0,
         hasNext |-> k < Len(C),
         write |-> k > nread]

\* the driver takes descriptors off its free list, builds a chain of them, and
\* publishes its head
DriverPublish ==
    /\ Len(vq.pubs) < MaxChains
    /\ Len(vq.pubs) - vq.reaped < vq.queueSize
    /\ LET free == (0 .. vq.queueSize - 1) \ InFlight(vq)
       IN  \E n \in 1 .. Cardinality(free) :
            \E nread \in ReadPrefixes(n) :
              LET C == Lowest(free, n)
              IN  vq' = [vq EXCEPT
                     !.desc = [d \in DOMAIN @ |->
                                 IF d \in Range(C) THEN ChainDesc(C, nread, d) ELSE @[d]],
                     !.buf = [d \in DOMAIN @ |->
                                 IF d \in Range(C) THEN "driver" ELSE @[d]],
                     !.avail.ring[vq.avail.idx % vq.queueSize] = C[1],
                     !.avail.idx = Inc16(@),
                     !.pubs = Append(@, [head |-> C[1], chain |-> C, nread |-> nread])]
    /\ UNCHANGED machineVars
    /\ UNCHANGED <<irqc, errv, boot, bar>>
    /\ UNCHANGED mainVars

\* the driver sets or clears NO_INTERRUPT in used.flags
DriverSuppress ==
    /\ vq.queueSize > 0
    /\ vq' = [vq EXCEPT !.used.flags = NOINTERRUPT - @]
    /\ UNCHANGED machineVars
    /\ UNCHANGED <<irqc, errv, boot, bar>>
    /\ UNCHANGED mainVars

\* the driver reads used.idx
DriverReadIdx ==
    /\ vq.queueSize > 0
    /\ vq.seenIdx # vq.used.idx
    /\ vq' = [vq EXCEPT !.seenIdx = vq.used.idx]
    /\ UNCHANGED machineVars
    /\ UNCHANGED <<irqc, errv, boot, bar>>
    /\ UNCHANGED mainVars

\* what the driver expects of the entry e of chain p and of its buffers
EntryVisible(q, p, e) ==
    /\ e.id = p.head
    /\ e.len = Len(p.chain) - p.nread
    /\ \A k \in p.nread + 1 .. Len(p.chain) : q.buf[p.chain[k]] = "device"

\* the driver, having seen used.idx ahead of its own index, takes the next used
\* entry and the buffers of its chain, and frees the descriptors
DriverReap ==
    /\ vq.queueSize > 0
    /\ vq.lastUsedIdx # vq.seenIdx
    /\ LET e == vq.used.ring[vq.lastUsedIdx % vq.queueSize]
           p == vq.pubs[vq.reaped + 1]
       IN  vq' = [vq EXCEPT
              !.bad = @ \/ ~EntryVisible(vq, p, e),
              !.reaped = @ + 1,
              !.lastUsedIdx = Inc16(@),
              !.desc = [d \in DOMAIN @ |-> IF d \in Range(p.chain) THEN NoDesc ELSE @[d]],
              !.buf = [d \in DOMAIN @ |-> IF d \in Range(p.chain) THEN "none" ELSE @[d]]]
    /\ UNCHANGED machineVars
    /\ UNCHANGED <<irqc, errv, boot, bar>>
    /\ UNCHANGED mainVars

\* poll step 1: with avail.idx = last_avail_idx there is nothing to do
DevPoll ==
    /\ vq.queueSize > 0
    /\ vq.pc = "idle"
    /\ vq.avail.idx # vq.lastAvailIdx
    /\ vq' = [vq EXCEPT !.pc = "walk", !.published = 0]
    /\ UNCHANGED machineVars
    /\ UNCHANGED <<irqc, errv, boot, bar>>
    /\ UNCHANGED mainVars

\* DevHandle with the payload left unwritten
DevHandleNoPayload ==
    /\ vq.pc = "walk"
    /\ LET head == vq.avail.ring[vq.lastAvailIdx % vq.queueSize]
           chain == Walk(vq.desc, head, vq.queueSize)
       IN  vq' = [vq EXCEPT
              !.head = head,
              !.chain = chain,
              !.writtenLen = Cardinality(WriteVisits(vq.desc, chain)),
              !.pc = "entry"]
    /\ UNCHANGED machineVars
    /\ UNCHANGED <<irqc, errv, boot, bar>>
    /\ UNCHANGED mainVars

\* poll steps 2a to 2d: take the head, walk its chain, split it by WRITE, and
\* have the device's handler fill the write segment
DevHandle ==
    /\ vq.pc = "walk"
    /\ LET head == vq.avail.ring[vq.lastAvailIdx % vq.queueSize]
           chain == Walk(vq.desc, head, vq.queueSize)
       IN  vq' = [vq EXCEPT
              !.head = head,
              !.chain = chain,
              !.writtenLen = Cardinality(WriteVisits(vq.desc, chain)),
              !.buf = Handled(vq, chain),
              !.pc = "entry"]
    /\ UNCHANGED machineVars
    /\ UNCHANGED <<irqc, errv, boot, bar>>
    /\ UNCHANGED mainVars

\* poll step 2e, first half: the used entry is written
DevUsedEntry ==
    /\ vq.pc = "entry"
    /\ vq' = [vq EXCEPT
          !.used.ring[vq.used.idx % vq.queueSize] =
              [id |-> vq.head, len |-> vq.writtenLen],
          !.pc = "idx"]
    /\ UNCHANGED machineVars
    /\ UNCHANGED <<irqc, errv, boot, bar>>
    /\ UNCHANGED mainVars

\* poll steps 2e, second half, and 2f: used.idx and last_avail_idx are
\* incremented, and the loop goes on while last_avail_idx # avail.idx
DevUsedIdx ==
    /\ vq.pc = "idx"
    /\ vq' = [vq EXCEPT
          !.used.idx = Inc16(@),
          !.lastAvailIdx = Inc16(@),
          !.published = @ + 1,
          !.done = @ + 1,
          !.pc = IF Inc16(vq.lastAvailIdx) # vq.avail.idx THEN "walk" ELSE "irq"]
    /\ UNCHANGED machineVars
    /\ UNCHANGED <<irqc, errv, boot, bar>>
    /\ UNCHANGED mainVars

\* poll step 3: the IRQ edge, unless nothing was published or the driver asked
\* for none
DevIRQ ==
    /\ vq.pc = "irq"
    /\ vq' = [vq EXCEPT
          !.irqs = IF vq.published >= 1 /\ vq.used.flags # NOINTERRUPT
                   THEN @ + 1 ELSE @,
          !.pc = "idle"]
    /\ UNCHANGED machineVars
    /\ UNCHANGED <<irqc, errv, boot, bar>>
    /\ UNCHANGED mainVars

RingNext ==
    \/ DriverPublish
    \/ DriverSuppress
    \/ DriverReadIdx
    \/ DriverReap
    \/ DevPoll
    \/ DevHandle
    \/ DevUsedEntry
    \/ DevUsedIdx
    \/ DevIRQ

\* one queue, its driver in the guest and the device thread that polls it
RingSpec == RingInit /\ [][RingNext]_vars

\* the descriptor tables of Q descriptors: guest memory holds whatever the
\* guest wrote, chains that run into a cycle included
DescTables(Q) ==
    {[d \in 0 .. Q - 1 |-> [next |-> nx[d], hasNext |-> d \in hn, write |-> w]] :
        nx \in [0 .. Q - 1 -> 0 .. Q - 1], hn \in SUBSET (0 .. Q - 1), w \in BOOLEAN}

\* a queue with one head in the available ring that the device has not taken
WalkInit ==
    /\ MachineAfterNew(Cpus)
    /\ boot = NewReturned
    /\ \E Q \in QueueSizes : \E start \in RingStarts :
         \E t \in DescTables(Q) : \E head \in 0 .. Q - 1 :
            vq = [FreshQueue(Q, start) EXCEPT
                    !.desc = t,
                    !.buf = [d \in 0 .. Q - 1 |-> "driver"],
                    !.avail.ring[start % Q] = head,
                    !.avail.idx = Inc16(start)]

WalkNext ==
    \/ DevPoll
    \/ DevHandle
    \/ DevUsedEntry
    \/ DevUsedIdx
    \/ DevIRQ

\* the device thread polling a queue whose descriptor table is any table
WalkSpec == WalkInit /\ [][WalkNext]_vars

(* ------------------------------------- two threads injecting on one line *)

\* the calls of InjectVirtioNetIRQ each thread makes
MaxInject == 2

\* InjectVirtioNetIRQ called by thread c, first half: kvm.IRQLine(m.vmFd,
\* virtioNetIRQ, 0), return err if it failed
NetInjectLow(c) ==
    /\ irqc.pc[c] = "idle"
    /\ irqc.calls[c] < MaxInject
    /\ \E ok \in BOOLEAN :
          /\ irqLevel' = IRQLine(irqLevel, virtioNetIRQ, 0, ok)
          /\ irqc' = [irqc EXCEPT !.pc[c] = IF ok THEN "low" ELSE "idle",
                                  !.calls[c] = @ + 1]
    /\ UNCHANGED <<phase, ioportHandlers, mem, runs, mode, loopErr, last, panicked,
                   regs, thr, badOp, vq, errv, boot, bar>>
    /\ UNCHANGED mainVars

\* InjectVirtioNetIRQ called by thread c, second half: kvm.IRQLine(m.vmFd,
\* virtioNetIRQ, 1), return its error or nil.  The line sees an edge when the
\* call takes it from 0 to 1.
NetInjectHigh(c) ==
    /\ irqc.pc[c] = "low"
    /\ \E ok \in BOOLEAN :
          /\ irqLevel' = IRQLine(irqLevel, virtioNetIRQ, 1, ok)
          /\ irqc' = [irqc EXCEPT
                !.pc[c] = "idle",
                !.done = IF ok THEN @ + 1 ELSE @,
                !.edges = IF ok /\ irqLevel[virtioNetIRQ] = 0 THEN @ + 1 ELSE @]
    /\ UNCHANGED <<phase, ioportHandlers, mem, runs, mode, loopErr, last, panicked,
                   regs, thr, badOp, vq, errv, boot, bar>>
    /\ UNCHANGED mainVars

IrqNext ==
    \/ \E c \in IrqCallers : NetInjectLow(c)
    \/ \E c \in IrqCallers : NetInjectHigh(c)

\* the virtio-net RX and TX threads, each calling InjectVirtioNetIRQ
IrqSpec == Init /\ [][IrqNext]_vars

(* ------------------------------------------------ main's variable err *)

\* what term.SetRawMode returns when it fails
SetRawModeError == Err("ENOTTY", "", 0)

\* the VCPU goroutine of cpuId i: err = m.RunInfiniteLoop(cpuId), the store of
\* the result into the err that main declared
ErrAssign(i) ==
    /\ proc = "running"
    /\ mode[i] = "done"
    /\ errv.g[i].pc = "run"
    /\ errv' = [errv EXCEPT !.val = loopErr[i], !.by = Writer(i), !.g[i].pc = "test"]
    /\ UNCHANGED machineVars
    /\ UNCHANGED mainVars
    /\ UNCHANGED <<vq, irqc, boot, bar>>

\* the VCPU goroutine: err != nil, a load of err
ErrTest(i) ==
    /\ proc = "running"
    /\ errv.g[i].pc = "test"
    /\ errv' = [errv EXCEPT
          !.g[i].test = [val |-> errv.val, by |-> errv.by],
          !.g[i].pc = IF errv.val # Nil THEN "print" ELSE "done"]
    /\ UNCHANGED machineVars
    /\ UNCHANGED mainVars
    /\ UNCHANGED <<vq, irqc, boot, bar>>

\* the VCPU goroutine: fmt.Printf("%v\n\r", err), another load of err
ErrPrint(i) ==
    /\ proc = "running"
    /\ errv.g[i].pc = "print"
    /\ errv' = [errv EXCEPT
          !.g[i].print = [val |-> errv.val, by |-> errv.by],
          !.g[i].pc = "done"]
    /\ UNCHANGED machineVars
    /\ UNCHANGED mainVars
    /\ UNCHANGED <<vq, irqc, boot, bar>>

\* main, the goroutines started: term.IsTerminal, and with a terminal
\* restoreMode, err := term.SetRawMode(), which stores into the same err
ErrSetRawMode ==
    /\ proc = "running"
    /\ mainPc = "main"
    /\ \A i \in DOMAIN mode : mode[i] # "idle"
    /\ \/ /\ mainPc' = "select"
          /\ UNCHANGED <<term, errv>>
       \/ \E ok \in BOOLEAN :
          /\ mainPc' = "rawtest"
          /\ term' = IF ok THEN "raw" ELSE term
          /\ errv' = [errv EXCEPT !.val = IF ok THEN Nil ELSE SetRawModeError,
                                  !.by = MainWriter]
    /\ UNCHANGED machineVars
    /\ UNCHANGED <<proc, pump, fifo, inj>>
    /\ UNCHANGED <<vq, irqc, boot, bar>>

\* main: if err != nil { log.Fatalf(...) }, a load of err
ErrMainTest ==
    /\ proc = "running"
    /\ mainPc = "rawtest"
    /\ errv' = [errv EXCEPT !.mainTest = [val |-> errv.val, by |-> errv.by]]
    /\ proc' = IF errv.val # Nil THEN "exit1" ELSE proc
    /\ mainPc' = IF errv.val # Nil THEN "end" ELSE "wait"
    /\ UNCHANGED machineVars
    /\ UNCHANGED <<term, pump, fifo, inj>>
    /\ UNCHANGED <<vq, irqc, boot, bar>>

ErrNext ==
    \/ SmpLoadLinux
    \/ \E i \in SmpCpus : SmpStartCPU(i)
    \/ \E i \in SmpCpus : SmpLoopStep(i)
    \/ \E i \in SmpCpus : ErrAssign(i)
    \/ \E i \in SmpCpus : ErrTest(i)
    \/ \E i \in SmpCpus : ErrPrint(i)
    \/ ErrSetRawMode
    \/ ErrMainTest

\* main up to the test of SetRawMode's result, and the VCPU goroutines, with
\* the loads and stores of err as steps of their own
ErrSpec == SmpInit /\ [][ErrNext]_vars

(* -------------------------------------------------------------------- New *)

\* where New returns: with the error of one of its setup calls, in the order of
\* the code, or with nil
NewFailPoints ==
    <<"devKVM", "CreateVM", "SetTSSAddr", "SetIdentityMapAddr", "CreateIRQChip",
      "CreatePIT2", "GetVCPUMMmapSize", "CreateVCPU", "mem", "SetUserMemoryRegion",
      "ebda", "tap", "NewBlk", "none">>

\* what a failed setup call returns
NewError(k) == Err(NewFailPoints[k], "", 0)

\* the go statements New has executed when it returns at fail point k:
\* TxThreadEntry and RxThreadEntry precede NewBlk, IOThreadEntry follows it
StartedBefore(k) ==
    IF NewFailPoints[k] = "none" THEN DeviceThreads
    ELSE IF NewFailPoints[k] = "NewBlk" THEN {"netTx", "netRx"}
    ELSE {}

\* New has not been called
NotCalled == [pc |-> "start", threads |-> {}, err |-> Nil]

\* New, from the call to the return
NewReturns(k) ==
    /\ boot.pc = "start"
    /\ boot' = [pc |-> IF NewFailPoints[k] = "none" THEN "ok" ELSE "err",
                threads |-> StartedBefore(k),
                err |-> IF NewFailPoints[k] = "none" THEN Nil ELSE NewError(k)]
    /\ UNCHANGED machineVars
    /\ UNCHANGED mainVars
    /\ UNCHANGED <<vq, irqc, errv, bar>>

\* the device thread an injection of the virtio-net IRQ is called from
ThreadOf(c) == IF c = "rx" THEN "netRx" ELSE "netTx"

\* a started virtio-net thread calls m.InjectVirtioNetIRQ: the first IRQLine
ThreadInjectLow(c) ==
    /\ ThreadOf(c) \in boot.threads
    /\ NetInjectLow(c)

\* a started virtio-net thread: the second IRQLine of the call
ThreadInjectHigh(c) ==
    /\ ThreadOf(c) \in boot.threads
    /\ NetInjectHigh(c)

\* the machine as New will return it, New not yet called
NewInit == MachineAfterNew(Cpus) /\ vq = NoQueue /\ boot = NotCalled

NewNext ==
    \/ \E k \in 1 .. Len(NewFailPoints) : NewReturns(k)
    \/ \E c \in IrqCallers : ThreadInjectLow(c)
    \/ \E c \in IrqCallers : ThreadInjectHigh(c)

\* New, and the virtio-net threads it started
NewSpec == NewInit /\ [][NewNext]_vars

(* ----------------------------------------------------------- BAR writes *)

\* the device whose BAR0 the guest rewrites, and the base it writes: 0x60C0, the
\* first port above the ranges assigned at bring-up
MovedDevices == {"net"}
MovedBases == {24768}

\* the configuration data port 0xCFC
PciConfData == 3324

\* one iteration of RunInfiniteLoop(i) on the guest's OUT to the configuration
\* data port, the address latch naming BAR0 of device dev: RunOnce calls
\* PciConfDataOut, which stores the base, and the device's I/O range follows
\* its BAR
BarLoopStep(i) ==
    /\ ~panicked
    /\ mode[i] = "loop"
    /\ ioportHandlers[PciConfData][EXITIOOUT] = "PciConfDataOut"
    /\ \E r \in KernelPages(runs[i], "ok") :
          /\ r.ExitReason = EXITIO
          /\ r.direction = EXITIOOUT
          /\ r.port = PciConfData
          /\ r.size = 4
          /\ r.count = 1
          /\ LET res == RunOnce(ioportHandlers, r, "ok", 0)
                 d == LoopDecision(res.cont, res.err)
             IN  /\ RunOnceEffect(i, TRUE, "ok", r, res)
                 /\ mode' = [mode EXCEPT ![i] = d.mode]
                 /\ loopErr' = [loopErr EXCEPT ![i] = d.err]
    /\ \E dev \in MovedDevices : \E base \in MovedBases :
          bar' = [bar EXCEPT ![dev] = base]
    /\ UNCHANGED <<phase, ioportHandlers, mem, irqLevel>>
    /\ UNCHANGED mainVars
    /\ UNCHANGED <<regs, thr, badOp, vq>>
    /\ UNCHANGED <<irqc, errv, boot>>

BarNext ==
    \/ LoadLinux
    \/ \E i \in Cpus : StartLoop(i)
    \/ \E i \in Cpus : LoopStep(i)
    \/ \E i \in Cpus : DirectRunOnce(i)
    \/ RunOnceBadCPU
    \/ \E i \in Cpus : BarLoopStep(i)

\* the machine with a guest that rewrites a BAR
BarSpec == Init /\ [][BarNext]_vars

(* ----------------------------------------------------------------- claims *)

\* the table has been built by initIOPortHandlers
TableBuilt == \A p \in Ports : \A d \in Dirs : ioportHandlers[p][d] # "nil"

\* the last call of RunOnce followed an ioctl that returned without error
LastOK == last.valid /\ last.errno = "ok"

\* the last call of RunOnce dispatched an IO exit
LastIO == last.valid /\ last.page.ExitReason = EXITIO

\* RunInfiniteLoop returned e right after the last call of RunOnce, if it made it
LoopReturned(e) ==
    last.viaLoop => (mode[last.cpu] = "done" /\ loopErr[last.cpu] = e)

\* C1: once the handlers are installed, an OUT to port 0xCF9 makes RunOnce return
\* continue=false with an error wrapping ErrorWriteToCF9, which RunInfiniteLoop
\* returns.
C1_CF9WriteStops ==
    (LastOK /\ LastIO /\ TableBuilt /\ last.page.port = 3321
        /\ last.page.direction = EXITIOOUT)
    => (~last.cont /\ last.err.wraps = ErrorWriteToCF9 /\ LoopReturned(last.err))

C1_Witness ==
    /\ LastOK
    /\ LastIO
    /\ last.page.port = 3321
    /\ last.page.direction = EXITIOOUT
    /\ last.page.size = 2
    /\ last.page.data[1] = 6
    /\ last.viaLoop
    /\ mode[last.cpu] = "done"
    /\ loopErr[last.cpu].wraps = ErrorWriteToCF9

C3_HandlerCalledCountTimes ==
    LastIO =>
        LET n == Len(last.calls)
            io == IO(last.page)
        IN  /\ n >= 1
            /\ n <= io.count
            /\ \A k \in 1 .. n :
                  /\ last.calls[k].h = ioportHandlers[io.port][io.direction]
                  /\ last.calls[k].port = io.port
                  /\ last.calls[k].dir = io.direction
                  /\ k < n => last.calls[k].err = Nil
            /\ IF last.calls[n].err = Nil
               THEN n = io.count /\ last.cont
               ELSE ~last.cont /\ last.err = last.calls[n].err

C3_Witness ==
    /\ LastIO
    /\ Len(last.calls) = 2
    /\ last.calls[1].err = Nil
    /\ last.calls[2].err # Nil
    /\ ~last.cont

\* C4: when the ioctl fails with EAGAIN or EINTR, RunOnce returns a nil error and
\* continue=true and RunInfiniteLoop keeps iterating, whatever exit reason the
\* page holds.
C4_TransientContinues ==
    (last.valid /\ last.errno \in {"EAGAIN", "EINTR"})
    => (last.cont /\ last.err = Nil /\ (last.viaLoop => mode[last.cpu] = "loop"))

\* C5: when the ioctl fails with another error, RunOnce returns a non-nil error
\* and RunInfiniteLoop returns it, whatever exit reason the page holds.
C5_FatalIoctlStops ==
    (last.valid /\ last.errno \notin {"ok", "EAGAIN", "EINTR"})
    => (last.err # Nil /\ LoopReturned(last.err))

\* C6: on an exit of a successful ioctl whose reason has no case of its own
\* (SHUTDOWN, FAIL_ENTRY, INTERNAL_ERROR, ...) RunOnce calls no handler and returns
\* continue=false with an error wrapping ErrorUnexpectedEXITReason, which
\* RunInfiniteLoop returns.
C6_UnexpectedExitStops ==
    (LastOK /\ last.page.ExitReason \notin {EXITHLT, EXITIO, EXITUNKNOWN, EXITINTR})
    => /\ ~last.cont
       /\ last.err.wraps = ErrorUnexpectedEXITReason
       /\ last.err.arg = last.page.ExitReason
       /\ last.calls = << >>
       /\ LoopReturned(last.err)

C6_Witness ==
    /\ LastOK
    /\ last.page.ExitReason = EXITSHUTDOWN
    /\ last.viaLoop
    /\ mode[last.cpu] = "done"
    /\ loopErr[last.cpu].wraps = ErrorUnexpectedEXITReason

\* C7: on a DEBUG exit RunOnce returns continue=false with the debug error, which
\* errors.Is tells apart from the unexpected-exit-reason error.
C7_DebugErrorDistinguished ==
    (LastOK /\ last.page.ExitReason = EXITDEBUG)
    => (~last.cont /\ last.err.wraps = ErrDebug)

\* C8: on an MMIO exit whose handler succeeds RunOnce returns continue=true with
\* a nil error, so the exit does not end the run loop.
C8_MMIOContinues ==
    (LastOK /\ last.page.ExitReason = EXITMMIO)
    => (last.cont /\ last.err = Nil /\ (last.viaLoop => mode[last.cpu] = "loop"))

\* C9: on an INTR or UNKNOWN exit of a successful ioctl RunOnce returns
\* continue=true with a nil error, calls no handler, and leaves the handler
\* table, guest memory and the IRQ lines as they were.
C9_BenignExitFrame ==
    /\ []((LastOK /\ last.page.ExitReason \in {EXITINTR, EXITUNKNOWN})
            => (last.cont /\ last.err = Nil /\ last.calls = << >>
                /\ (last.viaLoop => mode[last.cpu] = "loop")))
    /\ [][(last' # last /\ last'.errno = "ok"
            /\ last'.page.ExitReason \in {EXITINTR, EXITUNKNOWN})
           => (ioportHandlers' = ioportHandlers /\ mem' = mem /\ irqLevel' = irqLevel
               /\ runs'[last'.cpu] = last'.page)]_vars

C9_Witness ==
    /\ LastOK
    /\ last.page.ExitReason = EXITINTR
    /\ last.viaLoop
    /\ mode[last.cpu] = "loop"
    /\ TableBuilt

\* C10: on an IO exit of size s and count c the slice handed to the handler has
\* length c * s and starts at the data offset of the run-state page.
C10_SliceIsCountTimesSize ==
    LastIO =>
        \A k \in 1 .. Len(last.calls) :
            /\ last.calls[k].len = last.page.count * last.page.size
            /\ last.calls[k].off = last.page.offset

(* ------------------------------------------------- claims about the table *)

\* LoadLinux got as far as initIOPortHandlers (the images are in guest memory)
HandlersInitialised == "kernel" \in mem

\* the port lies in the I/O range of some PCI device
InBAR(p) == \E k \in 1 .. Len(Devices) :
    GetIORange(Devices[k]).start <= p /\ p < GetIORange(Devices[k]).end

\* the benign ranges: CMOS, DMA, serial ports 2, 3, 4, VGA, 0xcfa..0xcfb, 0xcfe,
\* 0xc000..0xcfff
Benign(p) ==
    \/ 112 <= p /\ p <= 113
    \/ 128 <= p /\ p <= 159
    \/ 760 <= p /\ p <= 767
    \/ 1000 <= p /\ p <= 1007
    \/ 744 <= p /\ p <= 751
    \/ 960 <= p /\ p <= 986
    \/ 948 <= p /\ p <= 949
    \/ 3322 <= p /\ p <= 3323
    \/ p = 3326
    \/ 49152 <= p /\ p <= 53247

\* the port is covered by an install that follows the default one
Covered(p) ==
    \/ Benign(p)
    \/ p = 3321
    \/ 96 <= p /\ p <= 111
    \/ COM1Addr <= p /\ p <= COM1Addr + 7
    \/ p = 3320
    \/ 3324 <= p /\ p <= 3327
    \/ InBAR(p)

\* every handler call of the last RunOnce succeeded and there were count of them
LastCallsAllOK ==
    /\ Len(last.calls) = last.page.count
    /\ \A k \in 1 .. Len(last.calls) : last.calls[k].err = Nil

\* C11: after initIOPortHandlers every slot of the table holds a handler, and a
\* slot no later install covers holds the deny handler: an access to such a port
\* makes RunOnce return continue=false with an error that names the port.
C11_DefaultIsDeny ==
    HandlersInitialised =>
        /\ TableBuilt
        /\ \A p \in Ports : \A d \in Dirs :
              ~Covered(p) => ioportHandlers[p][d] = "funcError"
        /\ (LastIO /\ ~Covered(last.page.port)) =>
              /\ ~last.cont
              /\ Len(last.calls) = 1
              /\ last.err =
                    Err(ErrorUnexpectedEXITReason, "unexpected io port", last.page.port)
              /\ LoopReturned(last.err)

C11_Witness ==
    /\ LastOK
    /\ LastIO
    /\ last.page.port = 24768
    /\ last.page.direction = EXITIOIN
    /\ last.page.count = 2
    /\ last.viaLoop
    /\ mode[last.cpu] = "done"
    /\ loopErr[last.cpu].arg = 24768

\* the PCI configuration ports: 0xcf8 and 0xcfc..0xcff
PCIConfPorts == {p \in Ports : p = 3320 \/ (3324 <= p /\ p <= 3327)}

\* 0xcf8 routes to the address-register handlers, 0xcfc..0xcff to the data handlers
PCIConfRouted ==
    /\ ioportHandlers[3320][EXITIOIN] = "PciConfAddrIn"
    /\ ioportHandlers[3320][EXITIOOUT] = "PciConfAddrOut"
    /\ \A p \in PCIConfPorts \ {3320} :
          /\ ioportHandlers[p][EXITIOIN] = "PciConfDataIn"
          /\ ioportHandlers[p][EXITIOOUT] = "PciConfDataOut"

\* the handler a PCI configuration access of the last RunOnce was given to
PCIConfDelivered ==
    (LastIO /\ last.page.port \in PCIConfPorts) =>
        \A k \in 1 .. Len(last.calls) :
            last.calls[k].h =
                IF last.page.port = 3320
                THEN (IF last.page.direction = EXITIOIN
                      THEN "PciConfAddrIn" ELSE "PciConfAddrOut")
                ELSE (IF last.page.direction = EXITIOIN
                      THEN "PciConfDataIn" ELSE "PciConfDataOut")

C14_PS2StatusAndNoOp ==
    /\ []((LastIO /\ 96 <= last.page.port /\ last.page.port <= 111)
            => /\ last.cont
               /\ LastCallsAllOK
               /\ last.err = Run(last.errno)
               /\ \A k \in 1 .. Len(last.calls) :
                     last.calls[k].h =
                        IF last.page.direction = EXITIOIN THEN "ps2In" ELSE "funcNone")
    /\ [][(last' # last /\ last'.page.ExitReason = EXITIO
            /\ 96 <= last'.page.port /\ last'.page.port <= 111)
           => /\ ioportHandlers' = ioportHandlers
              /\ mem' = mem
              /\ irqLevel' = irqLevel
              /\ runs'[last'.cpu] =
                    IF last'.page.direction = EXITIOIN
                    THEN [last'.page EXCEPT !.data[1] = 32]
                    ELSE last'.page]_vars

C14_Witness ==
    /\ LastOK
    /\ LastIO
    /\ last.page.port = 96
    /\ last.page.direction = EXITIOIN
    /\ last.page.size = 2
    /\ last.page.data[1] = 0
    /\ runs[last.cpu].data[1] = 32
    /\ runs[last.cpu].data[2] = 0
    /\ last.cont

\* C15: on a port of the benign ranges both handlers are the no-op: every call
\* succeeds, the data buffer and the machine state stay as they were, and
\* RunOnce returns continue=true.
C15_BenignPortsNoOp ==
    /\ [](HandlersInitialised =>
            \A p \in Ports : \A d \in Dirs :
                Benign(p) => ioportHandlers[p][d] = "funcNone")
    /\ []((LastIO /\ Benign(last.page.port))
            => /\ last.cont
               /\ LastCallsAllOK
               /\ last.err = Run(last.errno)
               /\ (last.viaLoop /\ last.err = Nil => mode[last.cpu] = "loop"))
    /\ [][(last' # last /\ last'.page.ExitReason = EXITIO /\ Benign(last'.page.port))
           => /\ ioportHandlers' = ioportHandlers
              /\ mem' = mem
              /\ irqLevel' = irqLevel
              /\ runs'[last'.cpu] = last'.page]_vars

C15_Witness ==
    /\ LastOK
    /\ LastIO
    /\ last.page.port = 49152
    /\ last.page.direction = EXITIOOUT
    /\ last.page.count = 2
    /\ Len(last.calls) = 2
    /\ last.viaLoop
    /\ mode[last.cpu] = "loop"

\* the PCI thunk of a direction
Thunk(d) == IF d = EXITIOIN THEN "pciInFunc" ELSE "pciOutFunc"

\* C16: the PCI thunks are installed in both directions on exactly the ports
\* start..end-1 of the devices' I/O ranges; an access to such a port reaches the
\* handler of the device whose range holds it, and RunOnce returns that
\* handler's error, if any.
C16_BARThunksExactRange ==
    HandlersInitialised =>
        /\ \A p \in Ports : \A d \in Dirs :
              (ioportHandlers[p][d] = Thunk(d)) <=> InBAR(p)
        /\ \A k \in 1 .. Len(Devices) :
              LET r == GetIORange(Devices[k])
              IN  /\ r.start \in Ports => ioportHandlers[r.start][EXITIOIN] = "pciInFunc"
                  /\ (r.end \in Ports /\ ~InBAR(r.end)) =>
                        ioportHandlers[r.end][EXITIOIN] \notin {"pciInFunc", "pciOutFunc"}
        /\ (LastIO /\ InBAR(last.page.port)) =>
              LET n == Len(last.calls)
              IN  /\ \A j \in 1 .. n : last.calls[j].h = Thunk(last.page.direction)
                  /\ Cardinality(PCIDeviceFor(last.page.port)) = 1
                  /\ last.calls[n].err \in {Nil, DeviceError}
                  /\ IF last.calls[n].err = Nil
                     THEN last.cont /\ n = last.page.count /\ last.err = Run(last.errno)
                     ELSE ~last.cont /\ last.err = DeviceError /\ LoopReturned(DeviceError)

C16_Witness ==
    /\ LastOK
    /\ LastIO
    /\ last.page.port = 24640
    /\ last.page.direction = EXITIOOUT
    /\ Len(last.calls) = 1
    /\ last.page.count = 2
    /\ last.err = DeviceError
    /\ last.viaLoop
    /\ mode[last.cpu] = "done"

(* ------------------------------------------ claims about main's goroutines *)

\* C12: the handler table is written only by LoadLinux: no RunOnce, handler, IRQ
\* injection or stdin step changes an entry, and in main the table is complete
\* before the first VCPU loop starts.
C12_TableWrittenOnlyByLoadLinux ==
    /\ [][ioportHandlers' # ioportHandlers =>
            /\ phase = "new"
            /\ phase' # "new"
            /\ \A i \in Cpus : mode[i] = "idle" /\ mode'[i] = "idle"
            /\ pump' = pump /\ inj' = inj /\ last' = last]_vars
    /\ []((\E i \in Cpus : mode[i] # "idle")
            => (TableBuilt /\ ioportHandlers = initIOPortHandlers(NilTable)))

C12_Witness ==
    /\ TableBuilt
    /\ LastIO
    /\ last.viaLoop
    /\ pump.injs = 2
    /\ Len(inj[serialIRQ].calls) = 2
    /\ Len(inj[virtioNetIRQ].calls) = 2
    /\ Len(fifo) = 1

C18_InjectionPerByte ==
    pump.pc # "len" => pump.injs = pump.enq

\* C19: enqueuing a byte never blocks the stdin goroutine: with a byte in hand it
\* can always send, also when the channel is full.
C19_EnqueueNeverBlocks ==
    (proc = "running" /\ pump.pc = "send") => ENABLED PumpSend

\* C20: once stdin has delivered Ctrl-A and then 'x', the process restores the
\* terminal and exits with status 0, whatever the guest does; and the stdin
\* goroutine ends the process for no other pair of bytes.
C20_EscapeTerminates ==
    /\ (proc = "running" /\ pump.pc = "send" /\ pump.before = 1 /\ pump.b = 120)
          ~> (proc = "exit0" /\ term = "restored")
    /\ [][pump'.pc = "exited" /\ pump.pc # "exited" =>
            (pump.before = 1 /\ pump.b = 120)]_vars

(* ------------------------------------------- exit status and thread claims *)

AllReturned == \A i \in DOMAIN mode : mode[i] = "done"
SomeFailed == \E i \in DOMAIN mode : mode[i] = "done" /\ loopErr[i] # Nil

\* C21: the process exit status is 0 when every VCPU stopped on a guest HLT and
\* 1 when any VCPU run loop returned a fatal error (the exit that a failed
\* SetRawMode makes before the stdin goroutine exists is left aside)
C21_ExitStatus ==
    (proc # "running" /\ AllReturned) =>
        IF SomeFailed THEN proc = "exit1" ELSE (pump.pc # "off" => proc = "exit0")

\* C22: once a VCPU run loop has returned a fatal error and all the other run
\* loops have returned, the process eventually exits, whether or not stdin is a
\* terminal
C22_FailedProcessExits ==
    (AllReturned /\ SomeFailed) ~> (proc # "running")

\* C23: with two VCPUs, when one run loop returns a fatal error every other run
\* loop eventually returns too (or the process has ended): no VCPU keeps
\* running forever after another has failed
C23_FailurePropagates ==
    SomeFailed ~> (AllReturned \/ proc # "running")

\* C24: for every VCPU, all VCPU-scoped ioctls on it (New, LoadLinux, the run
\* loop) are issued from the thread that created the VCPU
C24_OneThreadPerVCPU ==
    \A i \in DOMAIN thr : thr[i].issued \subseteq {NewThread}

(* -------------------------------------------------------- register claims *)

\* the boot state of VCPU i: RFLAGS = 2, RIP = 0x100000, RSI = 0x10000, the six
\* segments flat, CS.DB = SS.DB = 1, CR0 bit 0 set
BootState(i) ==
    /\ regs[i].RFLAGS = 2
    /\ regs[i].RIP = 1048576
    /\ regs[i].RSI = 65536
    /\ \A s \in {"CS", "DS", "ES", "FS", "GS", "SS"} :
          /\ regs[i].seg[s].Base = [hi |-> 0, lo |-> 0]
          /\ regs[i].seg[s].Limit = [hi |-> 65535, lo |-> 65535]
          /\ regs[i].seg[s].G = 1
    /\ regs[i].seg["CS"].DB = 1
    /\ regs[i].seg["SS"].DB = 1
    /\ regs[i].CR0 % 2 = 1

AllBootState == \A i \in DOMAIN regs : BootState(i)

\* C25: when LoadLinux returns nil, every VCPU has RFLAGS = 2, RIP = 0x100000,
\* RSI = 0x10000, all six segments flat (base 0, limit 0xFFFFFFFF, G = 1),
\* CS.DB = SS.DB = 1 and CR0 bit 0 set
C25_BootRegisters ==
    [][(phase = "new" /\ phase' = "loaded") => (~AllBootState /\ AllBootState')]_vars

\* LoadLinux has returned nil on a machine with two VCPUs, both in the boot state
C25_Witness ==
    /\ phase = "loaded"
    /\ DOMAIN regs = {0, 1}
    /\ AllBootState

(* ---------------------------------------------------------- bad VCPU ids *)

ErrBadCPU == "bad cpu"

\* C26: an operation addressed to a VCPU id outside 0 .. nCpus-1 (42 on a
\* machine with one VCPU) is rejected with ErrBadCPU: it does not panic
C26_BadCPURejected ==
    badOp.made =>
        /\ badOp.cpu \notin DOMAIN runs
        /\ ~badOp.panic
        /\ badOp.err.wraps = ErrBadCPU

(* ------------------------------------------------ dispatch of an IO exit *)

\* RunOnce has called a slot of the table that holds no handler
NilSlotCalled == panicked /\ ~badOp.panic

\* C29: RunOnce never finds an empty slot in the handler table, on any machine
\* New returned: before LoadLinux was called and after LoadLinux returned an
\* error part-way too, every slot holds an installed handler
C29_NoEmptySlot ==
    ~NilSlotCalled

\* C30: a port handler is invoked only for an IO exit produced by a run ioctl
\* that just returned successfully; when the run ioctl fails, RunOnce invokes
\* no handler, even if the run-state page still records exit reason IO
C30_HandlerOnlyAfterSuccessfulRun ==
    (last.valid /\ last.errno # "ok") => last.calls = << >>

(* ------------------------------------------------------------ ring claims *)

\* the slot of the used ring that the i-th chain is published in
UsedSlot(i) == ((vq.start + i - 1) % 65536) % vq.queueSize

\* C27: for every chain the driver published, the device writes the used entry
\* {id: head, len: written_len} and the payload before it increments used.idx,
\* and injects the IRQ edge only after the increment: whenever the guest can
\* observe used.idx past a chain, the entry and the payload are there
C27_UsedIdxAfterEntryAndPayload ==
    /\ [](~vq.bad)
    /\ [](\A i \in vq.reaped + 1 .. vq.done :
             EntryVisible(vq, vq.pubs[i], vq.used.ring[UsedSlot(i)]))
    /\ [][vq.irqs' # vq.irqs =>
             (vq.pc = "irq" /\ vq.published >= 1 /\ vq.done' = vq.done
              /\ vq.used.idx' = vq.used.idx)]_vars

\* the driver has taken a chain with a payload from the used ring, the indices
\* having wrapped, and the IRQ edge was injected
C27_Witness ==
    /\ vq.start = 65535
    /\ vq.reaped >= 1
    /\ vq.pubs[1].nread < Len(vq.pubs[1].chain)
    /\ vq.irqs >= 1
    /\ ~vq.bad

\* C is the chain that begins at head: descriptors all different, each but the
\* last with NEXT set and next naming its successor, the last with NEXT = 0
IsChain(desc, head, C) ==
    /\ C[1] = head
    /\ \A k \in 1 .. Len(C) - 1 : desc[C[k]].hasNext /\ desc[C[k]].next = C[k + 1]
    /\ ~desc[C[Len(C)]].hasNext

\* the chains that begin at the head the device has taken
ChainsAtHead == {C \in InjSeqs(DOMAIN vq.desc) : IsChain(vq.desc, vq.head, C)}

C28_CycleBroken ==
    /\ vq.pc = "entry"
    /\ vq.queueSize = 4
    /\ ChainsAtHead = {}
    /\ Len(vq.chain) = 4

(* ------------------------------------------------- concurrent injections *)

\* C31: every completed call of an injection delivers its own 0-to-1 edge: when
\* two threads inject the same IRQ concurrently, n completed injections have
\* produced n edges, in every interleaving of their level-0 and level-1 calls
C31_EdgePerInjection ==
    (\A c \in IrqCallers : irqc.pc[c] = "idle") => irqc.edges = irqc.done

(* ------------------------------------------------------ the shared err *)

\* the value a load of err returned was stored by w, if the load was made
ReadOwn(r, w) == r.by.kind # "none" => r.by = w

\* C32: each VCPU goroutine tests and reports only the result of its own
\* RunInfiniteLoop call, and the error main tests after SetRawMode is only
\* SetRawMode's result: no value one goroutine stored into err is read as the
\* outcome of another's operation
C32_ErrReadByItsWriter ==
    /\ \A i \in DOMAIN errv.g :
          ReadOwn(errv.g[i].test, Writer(i)) /\ ReadOwn(errv.g[i].print, Writer(i))
    /\ ReadOwn(errv.mainTest, MainWriter)

(* ---------------------------------------------------------- New's errors *)

\* C33: if New returns an error, no background device thread is left running;
\* when opening the disk for virtio-blk fails, the virtio-net TX and RX threads
\* have not been started or have been stopped
C33_NoThreadAfterNewError ==
    boot.pc = "err" => boot.threads = {}

(* ------------------------------------------------- the thunks and the BARs *)

====
